---- MODULE Spec2Model ----
(***************************************************************************)
(* Model of event_orbbec_sync: the Event Slicer (prophesee.py), the Frame  *)
(* Producer (main.py, orbbec_worker), the Synchronizer Core                *)
(* (sync_processor.py, SensorSynchronizer) with its persistence pool, and  *)
(* the display consumer (main.py, MainWindow.poll_queue), connected by the *)
(* four multiprocessing queues created in main.py.                         *)
(*                                                                         *)
(* Python's None is the empty sequence; an optional integer v is <<v>>.    *)
(* An image is identified by the ordinal of the frame it was decoded from. *)
(* An event record is identified by its timestamp.                         *)
(***************************************************************************)
EXTENDS Integers, Sequences, FiniteSets, TLC

\* ------------------------------------------------------------ constants
\* program constants
BufferMaxLen == 100
sync_threshold_us == 5000
drift_alpha_inv == 100
worker_count == 8
SliceQueueMax == 5
SyncQueueMax == 5
DisplayQueueMax == 1

\* nominal frame interval: 33 ms (30 fps)
FramePeriod == 33000

\* bounds of the explored runs
MaxTriggers == 3
MaxFrames == 3
ScnPairs == 3
RecPairs == 3
CapItems == 101
CapOther == 1
OvTriggers == 7
OvFrames == 7
FirstTrigger == 1000
StopTriggers == 3
StopFrames == 6
FaultTriggers == 3
FaultFrames == 2
PoolPairs == 2
ScanSlices == 2
ScanLen == 3
GapFrames == 103
SlBatches == 3
BatchWindow == 3

None == <<>>
Some(v) == <<v>>
Val(o) == o[1]

Abs(x) == IF x < 0 THEN -x ELSE x

VARIABLES
    \* process-wide
    stop_event,
    slice_queue, o_queue_sync, o_queue, p_queue,
    \* Event Slicer (PropheseeCamera)
    slicer_pc, active, last_trigger_ts, event_buffer, cur_evs, cur_trigs,
    evs_clock, n_trig,
    \* Frame Producer (orbbec_worker)
    orb_pc, cur_frame, orb_clock, n_frames,
    \* Synchronizer Core (SensorSynchronizer)
    sync_pc, evs_buffer, orb_buffer, diff_samples, initial_delta_monitoring,
    delta_orb_to_evs, record_enabled, record_idx,
    \* persistence pool
    submitted, task_pc, files, executor_shutdown,
    \* console output and observation of the run
    log, matches, last_op

slicerVars == <<slicer_pc, active, last_trigger_ts, event_buffer, cur_evs, cur_trigs,
                evs_clock, n_trig>>
orbVars == <<orb_pc, cur_frame, orb_clock, n_frames>>
coreVars == <<evs_buffer, orb_buffer, diff_samples, initial_delta_monitoring,
              delta_orb_to_evs, record_idx>>
poolVars == <<submitted, task_pc, files, executor_shutdown>>
vars == <<stop_event, slice_queue, o_queue_sync, o_queue, p_queue,
          slicer_pc, active, last_trigger_ts, event_buffer, cur_evs, cur_trigs,
          evs_clock, n_trig,
          orb_pc, cur_frame, orb_clock, n_frames,
          sync_pc, evs_buffer, orb_buffer, diff_samples, initial_delta_monitoring,
          delta_orb_to_evs, record_enabled, record_idx,
          submitted, task_pc, files, executor_shutdown,
          log, matches, last_op>>

\* ------------------------------------------------------------ console
\* the warnings printed so far: per message, the item each line was printed for
\* (slice_full: start_ts of the slice, sync_full: ordinal of the frame,
\* task_failed: the index strings), or the number of lines (orb_dropped);
\* monitor: the AvgDiff and MaxDiff of the last [Monitor] line, None before the
\* first one
NoLog == [slice_full |-> <<>>, sync_full |-> <<>>, orb_dropped |-> 0,
          task_failed |-> {}, monitor |-> <<>>]

Print1(l, what) == [l EXCEPT ![what] = @ + 1]

\* ------------------------------------------------------------ queues
\* multiprocessing.Queue(maxsize): full(), put() (blocks while full), get_nowait()
QFull(q, max) == Len(q) >= max

\* (mutant) a deque that grows without bound
DequeAppend_unbounded(buf, x) == Append(buf, x)

\* collections.deque(maxlen=100).append: a full deque discards its left end
DequeAppend(buf, x) ==
    IF Len(buf) >= BufferMaxLen THEN Append(Tail(buf), x) ELSE Append(buf, x)

\* ------------------------------------------------------------ Synchronizer Core
\* the frame's timestamp on the event timeline
MappedTs(orb, delta) == orb.rgb_ts + delta

\* the scan of sync(): best_match_idx and min_diff after the frames i..Len(buf),
\* entered with the best so far (best = 0 and min = -1 stand for None and inf)
\* (mutant) the scan keeps the last of several equally close frames
RECURSIVE ScanFrom_lasttie(_, _, _, _, _, _)
ScanFrom_lasttie(buf, delta, evs_ts, i, best, min) ==
    IF i > Len(buf) THEN [idx |-> best, diff |-> min]
    ELSE LET diff == Abs(MappedTs(buf[i], delta) - evs_ts)
         IN  IF min = -1 \/ diff <= min
             THEN ScanFrom_lasttie(buf, delta, evs_ts, i + 1, i, diff)
             ELSE ScanFrom_lasttie(buf, delta, evs_ts, i + 1, best, min)

RECURSIVE ScanFrom(_, _, _, _, _, _)
ScanFrom(buf, delta, evs_ts, i, best, min) ==
    IF i > Len(buf) THEN [idx |-> best, diff |-> min]
    ELSE LET diff == Abs(MappedTs(buf[i], delta) - evs_ts)
         IN  IF min = -1 \/ diff < min
             THEN ScanFrom(buf, delta, evs_ts, i + 1, i, diff)
             ELSE ScanFrom(buf, delta, evs_ts, i + 1, best, min)

BestMatch(buf, delta, evs_ts) == ScanFrom(buf, delta, evs_ts, 1, 0, -1)

\* (mutant) a difference equal to the threshold still matches
IsMatch_inclusive(best) == best.idx # 0 /\ best.diff <= sync_threshold_us

\* best_match_idx != None and min_diff < self.sync_threshold_us
IsMatch(best) == best.idx # 0 /\ best.diff < sync_threshold_us

\* (mutant) the whole error is added to the offset
DriftStep_whole(current_error) == current_error

\* (mutant) the product is rounded to the nearest integer, halves to even
DriftStep_round(current_error) ==
    LET q == current_error \div drift_alpha_inv
        r == current_error % drift_alpha_inv
    IN  IF 2 * r < drift_alpha_inv THEN q
        ELSE IF 2 * r > drift_alpha_inv THEN q + 1
        ELSE IF q % 2 = 0 THEN q ELSE q + 1

\* int(current_error * self.drift_alpha): the product truncated toward zero
DriftStep(current_error) ==
    IF current_error >= 0 THEN current_error \div drift_alpha_inv
    ELSE -((-current_error) \div drift_alpha_inv)

\* (mutant) the offset is seeded with zero
SeedDelta_zero(delta, evs_ts, orb0) ==
    IF delta = None THEN 0 ELSE Val(delta)

\* (mutant) the offset is seeded with its sign reversed
SeedDelta_reversed(delta, evs_ts, orb0) ==
    IF delta = None THEN orb0.rgb_ts - evs_ts ELSE Val(delta)

\* (mutant) the offset is seeded again at every call
SeedDelta_always(delta, evs_ts, orb0) == evs_ts - orb0.rgb_ts

\* the offset sync() works with: seeded from the two fronts when still None
SeedDelta(delta, evs_ts, orb0) ==
    IF delta = None THEN evs_ts - orb0.rgb_ts ELSE Val(delta)

\* (mutant) the matched frame alone is removed, the older frames stay
PopMatched_only(buf, idx) == SubSeq(buf, 1, idx - 1) \o SubSeq(buf, idx + 1, Len(buf))

\* (mutant) the matched frame is read but left in the buffer
PopMatched_keep(buf, idx) == SubSeq(buf, idx, Len(buf))

\* the frame buffer after the pops of a match at index idx (1-based here)
PopMatched(buf, idx) == SubSeq(buf, idx + 1, Len(buf))

\* record(): the bundle handed to the pool
Bundle(idx, matched_evs, matched_orb) ==
    [idx |-> idx, rgb |-> matched_orb.rgb, depth |-> matched_orb.depth,
     event_volume |-> matched_evs.event_volume,
     start_ts |-> matched_evs.start_ts, end_ts |-> matched_evs.end_ts]

\* (mutant) record() forgets to advance record_idx
NextRecordIdx_stuck(idx) == idx

\* the index record() gives to the next bundle after this one
NextRecordIdx(idx) == idx + 1

\* (mutant) the staleness tests include their bounds
SyncOutcome_eager(ebuf, obuf, delta0) ==
    LET evs_ts == Head(ebuf).start_ts
        delta == SeedDelta(delta0, evs_ts, Head(obuf))
        best == BestMatch(obuf, delta, evs_ts)
    IN  IF IsMatch(best) THEN "match"
        ELSE IF evs_ts <= MappedTs(obuf[1], delta) - sync_threshold_us THEN "drop_evs"
        ELSE IF evs_ts >= MappedTs(obuf[Len(obuf)], delta) + sync_threshold_us
             THEN "drop_orb"
        ELSE "wait"

\* (mutant) the two staleness tests evict the other side
SyncOutcome_swapped(ebuf, obuf, delta0) ==
    LET evs_ts == Head(ebuf).start_ts
        delta == SeedDelta(delta0, evs_ts, Head(obuf))
        best == BestMatch(obuf, delta, evs_ts)
    IN  IF IsMatch(best) THEN "match"
        ELSE IF evs_ts < MappedTs(obuf[1], delta) - sync_threshold_us THEN "drop_orb"
        ELSE IF evs_ts > MappedTs(obuf[Len(obuf)], delta) + sync_threshold_us
             THEN "drop_evs"
        ELSE "wait"

\* (mutant) a slice newer than the oldest frame by more than the threshold is
\* discarded as stale
SyncOutcome_flipped(ebuf, obuf, delta0) ==
    LET evs_ts == Head(ebuf).start_ts
        delta == SeedDelta(delta0, evs_ts, Head(obuf))
        best == BestMatch(obuf, delta, evs_ts)
    IN  IF IsMatch(best) THEN "match"
        ELSE IF evs_ts > MappedTs(obuf[1], delta) + sync_threshold_us THEN "drop_evs"
        ELSE IF evs_ts > MappedTs(obuf[Len(obuf)], delta) + sync_threshold_us
             THEN "drop_orb"
        ELSE "wait"

\* which branch sync() takes on the current buffers
SyncOutcome(ebuf, obuf, delta0) ==
    LET evs_ts == Head(ebuf).start_ts
        delta == SeedDelta(delta0, evs_ts, Head(obuf))
        best == BestMatch(obuf, delta, evs_ts)
    IN  IF IsMatch(best) THEN "match"
        ELSE IF evs_ts < MappedTs(obuf[1], delta) - sync_threshold_us THEN "drop_evs"
        ELSE IF evs_ts > MappedTs(obuf[Len(obuf)], delta) + sync_threshold_us
             THEN "drop_orb"
        ELSE "wait"

\* sync()
Sync ==
    /\ sync_pc = "sync"
    /\ LET evs_ts == Head(evs_buffer).start_ts
           delta == SeedDelta(delta_orb_to_evs, evs_ts, Head(orb_buffer))
           best == BestMatch(orb_buffer, delta, evs_ts)
           outcome == SyncOutcome(evs_buffer, orb_buffer, delta_orb_to_evs)
           matched_evs == Head(evs_buffer)
           matched_orb == orb_buffer[best.idx]
           current_error == evs_ts - MappedTs(matched_orb, delta)
       IN  /\ initial_delta_monitoring' =
                 IF delta_orb_to_evs = None THEN Some(delta)
                 ELSE initial_delta_monitoring
           /\ IF outcome = "match"
              THEN /\ evs_buffer' = Tail(evs_buffer)
                   /\ orb_buffer' = PopMatched(orb_buffer, best.idx)
                   /\ delta_orb_to_evs' = Some(delta + DriftStep(current_error))
                   /\ diff_samples' = Append(diff_samples, best.diff)
                   /\ matches' = Append(matches,
                          [start_ts |-> evs_ts, rgb_ts |-> matched_orb.rgb_ts,
                           diff |-> best.diff, frame |-> matched_orb.rgb])
                   /\ IF record_enabled
                      THEN /\ submitted' = Append(submitted,
                                  Bundle(record_idx, matched_evs, matched_orb))
                           /\ task_pc' = Append(task_pc, "queued")
                           /\ record_idx' = NextRecordIdx(record_idx)
                      ELSE UNCHANGED <<submitted, task_pc, record_idx>>
                   /\ UNCHANGED log
              ELSE /\ delta_orb_to_evs' = Some(delta)
                   /\ evs_buffer' = IF outcome = "drop_evs" THEN Tail(evs_buffer)
                                    ELSE evs_buffer
                   /\ orb_buffer' = IF outcome = "drop_orb" THEN Tail(orb_buffer)
                                    ELSE orb_buffer
                   /\ log' = IF outcome = "drop_orb" THEN Print1(log, "orb_dropped")
                             ELSE log
                   /\ UNCHANGED <<diff_samples, matches, submitted, task_pc, record_idx>>
           /\ last_op' = outcome
    /\ sync_pc' = "mon"
    /\ UNCHANGED <<stop_event, slice_queue, o_queue_sync, o_queue, p_queue,
                   slicerVars, orbVars, record_enabled, files, executor_shutdown>>

\* sync_process, top of the loop: the stop check and the pull from slice_queue
SyncPullEvs ==
    /\ sync_pc = "loop"
    /\ ~stop_event
    /\ IF slice_queue # <<>>
       THEN /\ evs_buffer' = DequeAppend(evs_buffer, Head(slice_queue))
            /\ slice_queue' = Tail(slice_queue)
            /\ last_op' = "pull_evs"
       ELSE /\ UNCHANGED <<evs_buffer, slice_queue>>
            /\ last_op' = "no_evs"
    /\ sync_pc' = "getO"
    /\ UNCHANGED <<stop_event, o_queue_sync, o_queue, p_queue, slicerVars, orbVars,
                   orb_buffer, diff_samples, initial_delta_monitoring,
                   delta_orb_to_evs, record_enabled, record_idx, poolVars,
                   log, matches>>

\* sync_process: the pull from o_queue_sync, then the test that guards sync()
SyncPullOrb ==
    /\ sync_pc = "getO"
    /\ IF o_queue_sync # <<>>
       THEN /\ orb_buffer' = DequeAppend(orb_buffer, Head(o_queue_sync))
            /\ o_queue_sync' = Tail(o_queue_sync)
            /\ last_op' = "pull_orb"
       ELSE /\ UNCHANGED <<orb_buffer, o_queue_sync>>
            /\ last_op' = "no_orb"
    /\ sync_pc' = IF Len(evs_buffer) > 0 /\ Len(orb_buffer') > 0 THEN "sync" ELSE "mon"
    /\ UNCHANGED <<stop_event, slice_queue, o_queue, p_queue, slicerVars, orbVars,
                   evs_buffer, diff_samples, initial_delta_monitoring,
                   delta_orb_to_evs, record_enabled, record_idx, poolVars,
                   log, matches>>

RECURSIVE SeqSum(_)
SeqSum(seq) == IF seq = <<>> THEN 0 ELSE Head(seq) + SeqSum(Tail(seq))

RECURSIVE SeqMax(_)
SeqMax(seq) ==
    IF Len(seq) = 1 THEN Head(seq)
    ELSE LET m == SeqMax(Tail(seq)) IN IF Head(seq) >= m THEN Head(seq) ELSE m

\* f"{a / n:5.0f}" for integers a >= 0, n > 0: the quotient to the nearest
\* integer, a half to the even neighbour
FormatAvg(a, n) ==
    LET q == a \div n
        r == a % n
    IN  IF 2 * r < n THEN q
        ELSE IF 2 * r > n THEN q + 1
        ELSE IF q % 2 = 0 THEN q ELSE q + 1

\* (mutant) the empty window is reported as if it held one sample
MonitorReport_nonempty(samples) ==
    [avg |-> FormatAvg(SeqSum(samples), Len(samples) + 1),
     max |-> IF samples = <<>> THEN -1 ELSE SeqMax(samples)]

\* monitor_buffers(): the AvgDiff and MaxDiff it prints
MonitorReport(samples) ==
    IF samples # <<>>
    THEN [avg |-> FormatAvg(SeqSum(samples), Len(samples)), max |-> SeqMax(samples)]
    ELSE [avg |-> 0, max |-> 0]

\* (mutant) the window is reported but not cleared
MonitorBuffers_keep(samples) == samples

\* monitor_buffers(): its only write is diff_samples.clear()
MonitorBuffers(samples) == <<>>

\* sync_process: the 5 s timer test (elapsed or not, drawn from timer),
\* monitor_buffers() when it has elapsed, and the 1 ms sleep of an idle tick (no
\* effect on the state)
SyncMonitor(timer) ==
    /\ sync_pc = "mon"
    /\ \E elapsed \in timer :
          IF elapsed
          THEN /\ diff_samples' = MonitorBuffers(diff_samples)
               /\ log' = [log EXCEPT !.monitor = Some(MonitorReport(diff_samples))]
               /\ last_op' = "monitor"
          ELSE UNCHANGED <<diff_samples, log, last_op>>
    /\ sync_pc' = "loop"
    /\ UNCHANGED <<stop_event, slice_queue, o_queue_sync, o_queue, p_queue,
                   slicerVars, orbVars, evs_buffer, orb_buffer,
                   initial_delta_monitoring, delta_orb_to_evs, record_enabled,
                   record_idx, poolVars, matches>>

\* sync_process leaves the loop: executor.shutdown(wait=True) when recording
SyncStop ==
    /\ sync_pc = "loop"
    /\ stop_event
    /\ sync_pc' = IF record_enabled THEN "shutdown" ELSE "done"
    /\ executor_shutdown' = record_enabled
    /\ last_op' = "stop"
    /\ UNCHANGED <<stop_event, slice_queue, o_queue_sync, o_queue, p_queue,
                   slicerVars, orbVars, coreVars, record_enabled,
                   submitted, task_pc, files, log, matches>>

\* (mutant) shutdown does not wait for the tasks
TaskOver_nowait(st) == TRUE

\* shutdown(wait=True) returns when no task is queued or running
TaskOver(st) == st \in {"done", "failed"}

SyncJoin ==
    /\ sync_pc = "shutdown"
    /\ \A k \in 1..Len(task_pc) : TaskOver(task_pc[k])
    /\ sync_pc' = "done"
    /\ last_op' = "joined"
    /\ UNCHANGED <<stop_event, slice_queue, o_queue_sync, o_queue, p_queue,
                   slicerVars, orbVars, coreVars, record_enabled, poolVars,
                   log, matches>>

\* sync_processor_worker: an exception raised inside sync_process is printed and
\* the finally clause sets stop_event; executor.shutdown is not reached
SyncFault ==
    /\ sync_pc \in {"loop", "getO", "sync", "mon"}
    /\ sync_pc' = "faulted"
    /\ stop_event' = TRUE
    /\ last_op' = "sync_fault"
    /\ UNCHANGED <<slice_queue, o_queue_sync, o_queue, p_queue,
                   slicerVars, orbVars, coreVars, record_enabled, poolVars,
                   log, matches>>

\* the parameters SensorSynchronizer.__init__ requires besides self, and the
\* arguments sync_processor_worker passes
InitParams == 5
WorkerArgs == 3

\* sync_processor_worker, from its start: SensorSynchronizer(slice_queue,
\* o_queue_sync, stop_event) raises TypeError unless every required parameter gets
\* an argument; the exception is printed and the finally clause sets stop_event
SyncWorkerStart ==
    /\ sync_pc = "start"
    /\ IF WorkerArgs = InitParams
       THEN /\ sync_pc' = "loop"
            /\ UNCHANGED <<stop_event, last_op>>
       ELSE /\ sync_pc' = "faulted"
            /\ stop_event' = TRUE
            /\ last_op' = "sync_fault"
    /\ UNCHANGED <<slice_queue, o_queue_sync, o_queue, p_queue,
                   slicerVars, orbVars, coreVars, record_enabled, poolVars,
                   log, matches>>

\* ------------------------------------------------------------ Event Slicer
\* evs[evs['t'] > ts] and evs[evs['t'] <= ts] on a batch of event timestamps
EvsAfter(evs, ts) == SelectSeq(evs, LAMBDA t : t > ts)
EvsUpTo(evs, ts) == SelectSeq(evs, LAMBDA t : t <= ts)

\* triggers[triggers['p'] == 1]
RisingEdges(trigs) == SelectSeq(trigs, LAMBDA g : g.p = 1)

\* the batches the device delivers after time c: one event, then a rising edge that
\* closes the interval, step microseconds after c
TriggerBatch(c, step) ==
    [evs |-> <<c + step - 500>>, trigs |-> <<[t |-> c + step, p |-> 1]>>,
     upto |-> c + step]

\* a batch of the live device in which nothing happened
IdleBatch(c) == [evs |-> <<>>, trigs |-> <<>>, upto |-> c]

\* start_loop, one iteration of `for evs in self.iterator` up to the trigger loop:
\* the display callback of frame_gen, then the test on triggers.size
SlicerFetch(batch, cb) ==
    /\ slicer_pc = "iter"
    /\ evs_clock' = batch.upto
    /\ n_trig' = n_trig + Len(RisingEdges(batch.trigs))
    /\ p_queue' = IF cb /\ ~QFull(p_queue, DisplayQueueMax)
                  THEN Append(p_queue, "cd_frame") ELSE p_queue
    /\ cur_evs' = batch.evs
    /\ IF Len(batch.trigs) > 0
       THEN /\ cur_trigs' = RisingEdges(batch.trigs)
            /\ slicer_pc' = IF cur_trigs' = <<>> THEN "end" ELSE "trig"
            /\ UNCHANGED event_buffer
       ELSE /\ cur_trigs' = <<>>
            /\ slicer_pc' = "end"
            /\ event_buffer' = IF active /\ Len(batch.evs) > 0
                               THEN event_buffer \o batch.evs ELSE event_buffer
    /\ UNCHANGED <<stop_event, slice_queue, o_queue_sync, o_queue,
                   active, last_trigger_ts, orbVars, sync_pc, coreVars,
                   record_enabled, poolVars, log, matches, last_op>>

\* the slice put on slice_queue at a trigger
Slice(volume, start, end) ==
    [event_volume |-> volume, start_ts |-> start, end_ts |-> end]

\* (mutant) the slice is put whatever the queue holds
SlicePut_always(q, slice) == Append(q, slice)

\* `if not slice_queue.full(): slice_queue.put(...)`
SlicePut(q, slice) == IF ~QFull(q, SliceQueueMax) THEN Append(q, slice) ELSE q

\* start_loop, one iteration of `for trig in rising_edges`
SlicerTrig ==
    /\ slicer_pc = "trig"
    /\ LET current_trig_ts == Head(cur_trigs).t
           merged_evs == event_buffer \o EvsUpTo(cur_evs, current_trig_ts)
           slice == Slice(merged_evs, Val(last_trigger_ts), current_trig_ts)
       IN  IF ~active
           THEN /\ active' = TRUE
                /\ event_buffer' = event_buffer \o EvsAfter(cur_evs, current_trig_ts)
                /\ UNCHANGED <<slice_queue, log>>
           ELSE /\ UNCHANGED active
                /\ IF Len(merged_evs) > 0
                   THEN /\ slice_queue' = SlicePut(slice_queue, slice)
                        /\ log' = IF QFull(slice_queue, SliceQueueMax)
                                  THEN [log EXCEPT !.slice_full =
                                            Append(@, slice.start_ts)]
                                  ELSE log
                   ELSE UNCHANGED <<slice_queue, log>>
                /\ event_buffer' = EvsAfter(cur_evs, current_trig_ts)
    /\ last_trigger_ts' = Some(Head(cur_trigs).t)
    /\ cur_trigs' = Tail(cur_trigs)
    /\ slicer_pc' = IF cur_trigs' = <<>> THEN "end" ELSE "trig"
    /\ UNCHANGED <<stop_event, o_queue_sync, o_queue, p_queue, cur_evs, evs_clock,
                   n_trig, orbVars, sync_pc, coreVars, record_enabled, poolVars,
                   matches, last_op>>

\* start_loop, end of an iteration: clear_ext_trigger_events() and the stop check;
\* on leaving, prophesee_worker's finally sets stop_event (it is set already)
SlicerEnd ==
    /\ slicer_pc = "end"
    /\ slicer_pc' = IF stop_event THEN "done" ELSE "iter"
    /\ cur_evs' = <<>>
    /\ UNCHANGED <<stop_event, slice_queue, o_queue_sync, o_queue, p_queue,
                   active, last_trigger_ts, event_buffer, cur_trigs, evs_clock,
                   n_trig, orbVars, sync_pc, coreVars, record_enabled, poolVars,
                   log, matches, last_op>>

\* prophesee_worker: an exception raised by PropheseeCamera() or inside start_loop
\* is printed and the finally clause sets stop_event
SlicerFault ==
    /\ slicer_pc \in {"iter", "trig", "end"}
    /\ slicer_pc' = "faulted"
    /\ stop_event' = TRUE
    /\ UNCHANGED <<slice_queue, o_queue_sync, o_queue, p_queue,
                   active, last_trigger_ts, event_buffer, cur_evs, cur_trigs,
                   evs_clock, n_trig, orbVars, sync_pc, coreVars, record_enabled,
                   poolVars, log, matches, last_op>>

\* ------------------------------------------------------------ Frame Producer
\* the frame get_frames() decodes, n-th of the run, stamped ts
Frame(n, ts) == [rgb |-> n, depth |-> n, rgb_ts |-> ts, depth_ts |-> ts]

\* orbbec_worker: the stop check, get_frames() returning a frame, o_queue.full()
OrbGetFrames(step) ==
    /\ orb_pc = "loop"
    /\ ~stop_event
    /\ cur_frame' = Some(Frame(n_frames + 1, orb_clock + step))
    /\ orb_clock' = orb_clock + step
    /\ n_frames' = n_frames + 1
    /\ orb_pc' = IF QFull(o_queue, DisplayQueueMax) THEN "drain" ELSE "chk_sync"
    /\ UNCHANGED <<stop_event, slice_queue, o_queue_sync, o_queue, p_queue,
                   slicerVars, sync_pc, coreVars, record_enabled, poolVars,
                   log, matches, last_op>>

\* orbbec_worker: get_frames() returning no frame (timeout or inner error)
OrbNoFrame ==
    /\ orb_pc = "loop"
    /\ ~stop_event
    /\ UNCHANGED vars

\* what `try: p_queue.get_nowait() except: pass` leaves of the two display queues:
\* the name p_queue is not bound in orbbec_worker's module when the worker is
\* spawned (NameError, swallowed); where it is bound, it is the event display queue
DrainOnFull(pq, oq, bound) ==
    [p |-> IF bound /\ pq # <<>> THEN Tail(pq) ELSE pq, o |-> oq]

OrbDrain ==
    /\ orb_pc = "drain"
    /\ \E bound \in BOOLEAN :
          LET r == DrainOnFull(p_queue, o_queue, bound)
          IN  /\ p_queue' = r.p
              /\ o_queue' = r.o
    /\ orb_pc' = "chk_sync"
    /\ UNCHANGED <<stop_event, slice_queue, o_queue_sync, slicerVars, cur_frame,
                   orb_clock, n_frames, sync_pc, coreVars, record_enabled, poolVars,
                   log, matches, last_op>>

\* orbbec_worker: `if o_queue_sync.full(): print(... Dropping frame.)`
OrbCheckSync ==
    /\ orb_pc = "chk_sync"
    /\ log' = IF QFull(o_queue_sync, SyncQueueMax)
              THEN [log EXCEPT !.sync_full = Append(@, Val(cur_frame).rgb)]
              ELSE log
    /\ orb_pc' = "put_o"
    /\ UNCHANGED <<stop_event, slice_queue, o_queue_sync, o_queue, p_queue,
                   slicerVars, cur_frame, orb_clock, n_frames, sync_pc, coreVars,
                   record_enabled, poolVars, matches, last_op>>

\* Queue.put(item): returns once there is room
PutEnabled(q, max) == ~QFull(q, max)

\* orbbec_worker: o_queue.put({...})
OrbPutDisplay ==
    /\ orb_pc = "put_o"
    /\ PutEnabled(o_queue, DisplayQueueMax)
    /\ o_queue' = Append(o_queue, Val(cur_frame).rgb)
    /\ orb_pc' = "put_sync"
    /\ UNCHANGED <<stop_event, slice_queue, o_queue_sync, p_queue,
                   slicerVars, cur_frame, orb_clock, n_frames, sync_pc, coreVars,
                   record_enabled, poolVars, log, matches, last_op>>

\* what o_queue_sync.put(frame) makes of the queue
SyncQueuePut(q, frame) == Append(q, frame)

\* orbbec_worker: o_queue_sync.put({...})
OrbPutSync ==
    /\ orb_pc = "put_sync"
    /\ PutEnabled(o_queue_sync, SyncQueueMax)
    /\ o_queue_sync' = SyncQueuePut(o_queue_sync, Val(cur_frame))
    /\ orb_pc' = "loop"
    /\ cur_frame' = None
    /\ UNCHANGED <<stop_event, slice_queue, o_queue, p_queue,
                   slicerVars, orb_clock, n_frames, sync_pc, coreVars,
                   record_enabled, poolVars, log, matches, last_op>>

\* orbbec_worker leaves its loop: o_cam.stop()
OrbExit ==
    /\ orb_pc = "loop"
    /\ stop_event
    /\ orb_pc' = "done"
    /\ UNCHANGED <<stop_event, slice_queue, o_queue_sync, o_queue, p_queue,
                   slicerVars, cur_frame, orb_clock, n_frames, sync_pc, coreVars,
                   record_enabled, poolVars, log, matches, last_op>>

\* orbbec_worker: an exception raised by OrbbecCamera() or inside the loop is
\* printed; the finally clause calls o_cam.stop() and prints, nothing else
OrbFault ==
    /\ orb_pc \in {"loop", "drain", "chk_sync", "put_o", "put_sync"}
    /\ orb_pc' = "faulted"
    /\ UNCHANGED <<stop_event, slice_queue, o_queue_sync, o_queue, p_queue,
                   slicerVars, cur_frame, orb_clock, n_frames, sync_pc, coreVars,
                   record_enabled, poolVars, log, matches, last_op>>

\* ------------------------------------------------------------ display consumer
\* poll_queue: `while not p_queue.empty(): p_queue.get_nowait()`
PollEvQueue ==
    /\ p_queue # <<>>
    /\ p_queue' = <<>>
    /\ UNCHANGED <<stop_event, slice_queue, o_queue_sync, o_queue, slicerVars,
                   orbVars, sync_pc, coreVars, record_enabled, poolVars,
                   log, matches, last_op>>

\* poll_queue: `while not o_queue.empty(): o_queue.get_nowait()`
PollOrbQueue ==
    /\ o_queue # <<>>
    /\ o_queue' = <<>>
    /\ UNCHANGED <<stop_event, slice_queue, o_queue_sync, p_queue, slicerVars,
                   orbVars, sync_pc, coreVars, record_enabled, poolVars,
                   log, matches, last_op>>

\* toggle_sensors while the workers run: stop_event.set()
ToggleStop ==
    /\ ~stop_event
    /\ stop_event' = TRUE
    /\ UNCHANGED <<slice_queue, o_queue_sync, o_queue, p_queue, slicerVars,
                   orbVars, sync_pc, coreVars, record_enabled, poolVars,
                   log, matches, last_op>>

\* ------------------------------------------------------------ persistence pool
\* the decimal digits of n >= 0, most significant first
RECURSIVE Digits(_)
Digits(n) == IF n < 10 THEN <<n>> ELSE Append(Digits(n \div 10), n % 10)

RECURSIVE ZeroPad(_, _)
ZeroPad(ds, width) == IF Len(ds) >= width THEN ds ELSE ZeroPad(<<0>> \o ds, width)

\* f"{bundle['idx']:06d}"
IdxStr(idx) == ZeroPad(Digits(idx), 6)

\* the three file names of a task: event/<idx>.h5, frame/<idx>_rgb.jpg,
\* frame/<idx>_depth.png
FileName(idx, kind) == [stem |-> IdxStr(idx), kind |-> kind]

\* a write replaces what the file held
WriteFile(fs, name, data, k) ==
    {f \in fs : f.name # name} \cup {[name |-> name, data |-> data, by |-> k]}

Running == {k \in 1..Len(task_pc) : task_pc[k] \in {"rgb", "depth"}}

\* a task leaves the work queue in submission order
FirstQueued(k) == \A j \in 1..(k - 1) : task_pc[j] # "queued"

\* (mutant) the exception is swallowed without a message
TaskFail_silent(k) ==
    /\ task_pc' = [task_pc EXCEPT ![k] = "failed"]
    /\ UNCHANGED <<log, files>>

\* `except Exception as e: print(f"[ASYNC RECORD ERROR] Task {idx_str} failed")`
TaskFail(k) ==
    /\ task_pc' = [task_pc EXCEPT ![k] = "failed"]
    /\ log' = [log EXCEPT !.task_failed = @ \cup {IdxStr(submitted[k].idx)}]
    /\ UNCHANGED files

\* _async_write_task on a free worker: the event container
TaskWriteEvents(k) ==
    /\ task_pc[k] = "queued"
    /\ FirstQueued(k)
    /\ Cardinality(Running) < worker_count
    /\ \E ok \in BOOLEAN :
          IF ok
          THEN /\ files' = WriteFile(files, FileName(submitted[k].idx, "h5"),
                                [events |-> submitted[k].event_volume,
                                 start_ts |-> submitted[k].start_ts,
                                 end_ts |-> submitted[k].end_ts], k)
               /\ task_pc' = [task_pc EXCEPT ![k] = "rgb"]
               /\ UNCHANGED log
          ELSE TaskFail(k)
    /\ UNCHANGED <<stop_event, slice_queue, o_queue_sync, o_queue, p_queue,
                   slicerVars, orbVars, sync_pc, coreVars, record_enabled,
                   submitted, executor_shutdown, matches, last_op>>

\* _async_write_task: the color image
TaskWriteRgb(k) ==
    /\ task_pc[k] = "rgb"
    /\ \E ok \in BOOLEAN :
          IF ok
          THEN /\ files' = WriteFile(files, FileName(submitted[k].idx, "rgb"),
                                [image |-> submitted[k].rgb], k)
               /\ task_pc' = [task_pc EXCEPT ![k] = "depth"]
               /\ UNCHANGED log
          ELSE TaskFail(k)
    /\ UNCHANGED <<stop_event, slice_queue, o_queue_sync, o_queue, p_queue,
                   slicerVars, orbVars, sync_pc, coreVars, record_enabled,
                   submitted, executor_shutdown, matches, last_op>>

\* _async_write_task: the depth image
TaskWriteDepth(k) ==
    /\ task_pc[k] = "depth"
    /\ \E ok \in BOOLEAN :
          IF ok
          THEN /\ files' = WriteFile(files, FileName(submitted[k].idx, "depth"),
                                [image |-> submitted[k].depth], k)
               /\ task_pc' = [task_pc EXCEPT ![k] = "done"]
               /\ UNCHANGED log
          ELSE TaskFail(k)
    /\ UNCHANGED <<stop_event, slice_queue, o_queue_sync, o_queue, p_queue,
                   slicerVars, orbVars, sync_pc, coreVars, record_enabled,
                   submitted, executor_shutdown, matches, last_op>>

\* ------------------------------------------------------------ specifications
\* the state after the queues of main.py and SensorSynchronizer.__init__; the two
\* device clocks start at evs0 and orb0
InitWith(evs0, orb0, rec) ==
    /\ stop_event = FALSE
    /\ slice_queue = <<>> /\ o_queue_sync = <<>> /\ o_queue = <<>> /\ p_queue = <<>>
    /\ slicer_pc = "iter" /\ active = FALSE /\ last_trigger_ts = None
    /\ event_buffer = <<>> /\ cur_evs = <<>> /\ cur_trigs = <<>>
    /\ evs_clock = evs0 /\ n_trig = 0
    /\ orb_pc = "loop" /\ cur_frame = None /\ orb_clock = orb0 /\ n_frames = 0
    /\ sync_pc = "loop" /\ evs_buffer = <<>> /\ orb_buffer = <<>>
    /\ diff_samples = <<>> /\ initial_delta_monitoring = None
    /\ delta_orb_to_evs = None /\ record_enabled = rec /\ record_idx = 0
    /\ submitted = <<>> /\ task_pc = <<>> /\ files = {} /\ executor_shutdown = FALSE
    /\ log = NoLog /\ matches = <<>> /\ last_op = "init"

Pool == \E k \in 1..Len(task_pc) :
            TaskWriteEvents(k) \/ TaskWriteRgb(k) \/ TaskWriteDepth(k)

\* the trigger intervals of the explored runs (microseconds): the nominal period,
\* periods that put the next pair at 4999 and at 5000, a trigger that follows the
\* previous one within the threshold, and a missed trigger (two periods); the
\* first trigger comes FirstTrigger after the first frame
TrigSteps(n) == IF n = 0 THEN {FirstTrigger + FramePeriod}
                ELSE {FramePeriod, FramePeriod + sync_threshold_us - 1,
                      FramePeriod + sync_threshold_us, 2 * FramePeriod,
                      sync_threshold_us - 1000}
NominalStep(n) == IF n = 0 THEN FirstTrigger + FramePeriod ELSE FramePeriod

\* Spec: both sensors running, every interleaving of the four processes, trigger
\* intervals of every kind; the run (a few frame periods) is over before the 5 s
\* monitor timer elapses, and the pool workers are left out (SpecRecord has them)
Init == \E rec \in BOOLEAN : InitWith(-FramePeriod, -FramePeriod, rec)

Next ==
    \/ \E step \in TrigSteps(n_trig) :
          n_trig < MaxTriggers /\ SlicerFetch(TriggerBatch(evs_clock, step), FALSE)
    \/ SlicerTrig
    \/ SlicerEnd
    \/ n_frames < MaxFrames /\ OrbGetFrames(FramePeriod)
    \/ OrbDrain
    \/ OrbCheckSync
    \/ OrbPutDisplay
    \/ OrbPutSync
    \/ PollOrbQueue
    \/ SyncPullEvs
    \/ SyncPullOrb
    \/ Sync
    \/ SyncMonitor({FALSE})

Spec == Init /\ [][Next]_vars

\* SpecScenario: ScnPairs slices and ScnPairs frames at the nominal period, the
\* slices FirstTrigger later than the frames, with recording enabled; every
\* interleaving of the arrivals with the ticks
InitScenario == InitWith(-FramePeriod, -FramePeriod, TRUE)

NextScenario ==
    \/ \E cb \in BOOLEAN :
          /\ n_trig < ScnPairs + 1
          /\ SlicerFetch(TriggerBatch(evs_clock, NominalStep(n_trig)), cb)
    \/ SlicerTrig
    \/ SlicerEnd
    \/ n_frames < ScnPairs /\ OrbGetFrames(FramePeriod)
    \/ OrbNoFrame
    \/ OrbDrain
    \/ OrbCheckSync
    \/ OrbPutDisplay
    \/ OrbPutSync
    \/ PollEvQueue
    \/ PollOrbQueue
    \/ SyncPullEvs
    \/ SyncPullOrb
    \/ Sync
    \/ SyncMonitor(BOOLEAN)

SpecScenario == InitScenario /\ [][NextScenario]_vars

\* SpecRecord: RecPairs pairs at the nominal period, each sensor delivering its next
\* item once the previous one is pulled, and the pool workers writing the matched
\* pairs in every interleaving, each write succeeding or failing; the monitor timer
\* does not elapse
NextRecord ==
    \/ /\ n_trig < RecPairs + 1
       /\ slice_queue = <<>>
       /\ SlicerFetch(TriggerBatch(evs_clock, NominalStep(n_trig)), FALSE)
    \/ SlicerTrig
    \/ SlicerEnd
    \/ /\ n_frames < RecPairs
       /\ o_queue_sync = <<>>
       /\ OrbGetFrames(FramePeriod)
    \/ OrbCheckSync
    \/ OrbPutDisplay
    \/ OrbPutSync
    \/ PollOrbQueue
    \/ SyncPullEvs
    \/ SyncPullOrb
    \/ Sync
    \/ SyncMonitor({FALSE})
    \/ Pool

SpecRecord == InitScenario /\ [][NextRecord]_vars

\* SpecCap: long runs in which one sensor delivers up to CapItems items at the
\* nominal period while the other has delivered at most CapOther, each sensor
\* delivering its next item only once the synchronizer has pulled the previous one
\* (the tick is 1 ms, the period 33 ms); the run lasts less than the 5 s of the
\* monitor timer
InitCap == InitWith(-FramePeriod, -FramePeriod, FALSE)

NextCap ==
    \/ /\ n_trig < CapItems + 1
       /\ n_frames <= CapOther
       /\ slice_queue = <<>>
       /\ SlicerFetch(TriggerBatch(evs_clock, NominalStep(n_trig)), FALSE)
    \/ SlicerTrig
    \/ SlicerEnd
    \/ /\ n_frames < CapItems
       /\ n_trig <= CapOther + 1
       /\ o_queue_sync = <<>>
       /\ OrbGetFrames(FramePeriod)
    \/ OrbCheckSync
    \/ OrbPutDisplay
    \/ OrbPutSync
    \/ PollOrbQueue
    \/ SyncPullEvs
    \/ SyncPullOrb
    \/ Sync
    \/ SyncMonitor({FALSE})

SpecCap == InitCap /\ [][NextCap]_vars

\* SpecOverflow: the Event Slicer delivering up to OvTriggers triggers while the
\* synchronizer pulls at any pace, or not at all
NextOverflow ==
    \/ /\ n_trig < OvTriggers
       /\ SlicerFetch(TriggerBatch(evs_clock, NominalStep(n_trig)), FALSE)
    \/ SlicerTrig
    \/ SlicerEnd
    \/ SyncPullEvs
    \/ SyncPullOrb
    \/ SyncMonitor(BOOLEAN)

SpecOverflow == InitCap /\ [][NextOverflow]_vars

\* SpecFrames: the Frame Producer delivering up to OvFrames frames while the
\* display and the synchronizer pull at any pace, or not at all
NextFrames ==
    \/ n_frames < OvFrames /\ OrbGetFrames(FramePeriod)
    \/ OrbDrain
    \/ OrbCheckSync
    \/ OrbPutDisplay
    \/ OrbPutSync
    \/ PollOrbQueue
    \/ SyncPullEvs
    \/ SyncPullOrb
    \/ SyncMonitor(BOOLEAN)

SpecFrames == InitCap /\ [][NextFrames]_vars

\* the steps of each unit when the device delivers up to maxt triggers, then
\* batches without a trigger, and up to maxf frames
SlicerRun(maxt) ==
    \/ /\ n_trig < maxt
       /\ SlicerFetch(TriggerBatch(evs_clock, NominalStep(n_trig)), FALSE)
    \/ n_trig = maxt /\ SlicerFetch(IdleBatch(evs_clock), FALSE)
    \/ SlicerTrig
    \/ SlicerEnd

OrbRun(maxf) ==
    \/ n_frames < maxf /\ OrbGetFrames(FramePeriod)
    \/ OrbDrain
    \/ OrbCheckSync
    \/ OrbPutDisplay
    \/ OrbPutSync
    \/ OrbExit

SyncRun ==
    \/ SyncPullEvs
    \/ SyncPullOrb
    \/ Sync
    \/ SyncMonitor({FALSE})
    \/ SyncStop

\* SpecStop: the three units running, the display polling, and the stop button
\* pressed at any moment. Every process that can take a step eventually takes one
\* (each unit is an operating-system process of its own, the display a 10 ms
\* timer); nothing obliges the button to be pressed
NextStop ==
    \/ SlicerRun(StopTriggers)
    \/ OrbRun(StopFrames)
    \/ SyncRun
    \/ PollOrbQueue
    \/ ToggleStop

SpecStop ==
    /\ InitCap /\ [][NextStop]_vars
    /\ WF_vars(SlicerRun(StopTriggers)) /\ WF_vars(OrbRun(StopFrames))
    /\ WF_vars(SyncRun) /\ WF_vars(PollOrbQueue)

\* SpecFault: as SpecStop, with a fault raised in any unit at any moment
NextFault ==
    \/ SlicerRun(FaultTriggers)
    \/ OrbRun(FaultFrames)
    \/ SyncRun
    \/ PollOrbQueue
    \/ ToggleStop
    \/ SlicerFault
    \/ OrbFault
    \/ SyncFault

SpecFault == InitCap /\ [][NextFault]_vars

\* SpecShutdown: as SpecRecord (recording enabled, the pool workers writing), with
\* the stop button pressed at any moment
NextShutdown ==
    \/ /\ n_trig < RecPairs + 1
       /\ slice_queue = <<>>
       /\ SlicerFetch(TriggerBatch(evs_clock, NominalStep(n_trig)), FALSE)
    \/ SlicerTrig
    \/ SlicerEnd
    \/ /\ n_frames < RecPairs
       /\ o_queue_sync = <<>>
       /\ OrbGetFrames(FramePeriod)
    \/ OrbCheckSync
    \/ OrbPutDisplay
    \/ OrbPutSync
    \/ OrbExit
    \/ PollOrbQueue
    \/ SyncRun
    \/ SyncJoin
    \/ Pool
    \/ ToggleStop

SpecShutdown == InitScenario /\ [][NextShutdown]_vars

\* the steps of the k-th submitted task
Task(k) ==
    /\ k <= Len(task_pc)
    /\ (TaskWriteEvents(k) \/ TaskWriteRgb(k) \/ TaskWriteDepth(k))

\* SpecPool: PoolPairs pairs at the nominal period with recording enabled, as
\* SpecRecord; the synchronizer's process takes a step whenever it can, and so does
\* every task that holds a worker or is first in the queue with a worker free
NextPool ==
    \/ /\ n_trig < PoolPairs + 1
       /\ slice_queue = <<>>
       /\ SlicerFetch(TriggerBatch(evs_clock, NominalStep(n_trig)), FALSE)
    \/ SlicerTrig
    \/ SlicerEnd
    \/ /\ n_frames < PoolPairs
       /\ o_queue_sync = <<>>
       /\ OrbGetFrames(FramePeriod)
    \/ OrbCheckSync
    \/ OrbPutDisplay
    \/ OrbPutSync
    \/ PollOrbQueue
    \/ SyncPullEvs
    \/ SyncPullOrb
    \/ Sync
    \/ SyncMonitor({FALSE})
    \/ Pool

SpecPool ==
    /\ InitScenario /\ [][NextPool]_vars
    /\ WF_vars(SyncPullEvs \/ SyncPullOrb \/ Sync \/ SyncMonitor({FALSE}))
    /\ \A k \in 1..PoolPairs : WF_vars(Task(k))

\* SpecWorkers: the three workers as main.py starts them, the synchronizer's from
\* its first statement
InitWorkers ==
    /\ stop_event = FALSE
    /\ slice_queue = <<>> /\ o_queue_sync = <<>> /\ o_queue = <<>> /\ p_queue = <<>>
    /\ slicer_pc = "iter" /\ active = FALSE /\ last_trigger_ts = None
    /\ event_buffer = <<>> /\ cur_evs = <<>> /\ cur_trigs = <<>>
    /\ evs_clock = -FramePeriod /\ n_trig = 0
    /\ orb_pc = "loop" /\ cur_frame = None /\ orb_clock = -FramePeriod /\ n_frames = 0
    /\ sync_pc = "start" /\ evs_buffer = <<>> /\ orb_buffer = <<>>
    /\ diff_samples = <<>> /\ initial_delta_monitoring = None
    /\ delta_orb_to_evs = None /\ record_enabled = FALSE /\ record_idx = 0
    /\ submitted = <<>> /\ task_pc = <<>> /\ files = {} /\ executor_shutdown = FALSE
    /\ log = NoLog /\ matches = <<>> /\ last_op = "init"

NextWorkers ==
    \/ SlicerRun(FaultTriggers)
    \/ OrbRun(FaultFrames)
    \/ PollOrbQueue
    \/ ToggleStop
    \/ SlicerFault
    \/ OrbFault
    \/ SyncWorkerStart

SpecWorkers == InitWorkers /\ [][NextWorkers]_vars

\* a unit has left its loop
Left(pc) == pc \in {"done", "faulted"}

\* toggle_sensors while the Event Slicer's process is not alive: stop_event.clear()
\* and three new processes, started whatever the previous Frame Producer and
\* Synchronizer Core processes are doing; the queues are the module's and keep
\* what they hold, the devices' clocks run on. From here on the variables of the
\* three units are those of the new processes
ToggleStart ==
    /\ Left(slicer_pc)
    /\ stop_event' = FALSE
    /\ slicer_pc' = "iter" /\ active' = FALSE /\ last_trigger_ts' = None
    /\ event_buffer' = <<>> /\ cur_evs' = <<>> /\ cur_trigs' = <<>>
    /\ orb_pc' = "loop" /\ cur_frame' = None
    /\ sync_pc' = "start" /\ evs_buffer' = <<>> /\ orb_buffer' = <<>>
    /\ diff_samples' = <<>> /\ initial_delta_monitoring' = None
    /\ delta_orb_to_evs' = None /\ record_idx' = 0
    /\ last_op' = "start"
    /\ UNCHANGED <<slice_queue, o_queue_sync, o_queue, p_queue, evs_clock, n_trig,
                   orb_clock, n_frames, record_enabled, poolVars, log, matches>>

\* SpecToggle: as SpecWorkers, with the button pressed at any moment, to stop
\* (the Event Slicer's process is alive) or to start again (it is not)
NextToggle ==
    \/ SlicerRun(FaultTriggers)
    \/ OrbRun(FaultFrames)
    \/ PollOrbQueue
    \/ ~Left(slicer_pc) /\ ToggleStop
    \/ ToggleStart
    \/ SlicerFault
    \/ OrbFault
    \/ SyncWorkerStart

SpecToggle == InitWorkers /\ [][NextToggle]_vars

\* SpecScan: sync() applied to buffers drawn from bounded sets: up to ScanSlices
\* slices and up to ScanLen frames with ascending timestamps, the offset unset or
\* seeded to 0, recording on or off; the loop then ticks on these buffers with
\* nothing more arriving. The timestamps put a slice within the threshold of one
\* frame or of two, at equal and at unequal distances, at 4999 and at 5000, before
\* every frame, after every frame, and in a gap between two frames
ScanFrameTs == {0, 2000, 4000, 20000}
ScanSliceTs == {-6000, -150, -60, 60, 150, 1000, 3000, 4999, 5000, 10000, 15000,
                25000, 26000}

Ascending(ts) == \A i \in 1..(Len(ts) - 1) : ts[i] < ts[i + 1]
AscendingSeqs(S, n) == {ts \in UNION {[1..k -> S] : k \in 1..n} : Ascending(ts)}

InitScan ==
    /\ stop_event = FALSE
    /\ slice_queue = <<>> /\ o_queue_sync = <<>> /\ o_queue = <<>> /\ p_queue = <<>>
    /\ slicer_pc = "iter" /\ active = FALSE /\ last_trigger_ts = None
    /\ event_buffer = <<>> /\ cur_evs = <<>> /\ cur_trigs = <<>>
    /\ evs_clock = 0 /\ n_trig = 0
    /\ orb_pc = "loop" /\ cur_frame = None /\ orb_clock = 0 /\ n_frames = 0
    /\ sync_pc = "sync"
    /\ \E ets \in AscendingSeqs(ScanSliceTs, ScanSlices) :
          evs_buffer = [i \in 1..Len(ets) |->
                           Slice(<<ets[i] + 1>>, ets[i], ets[i] + FramePeriod)]
    /\ \E fts \in AscendingSeqs(ScanFrameTs, ScanLen) :
          orb_buffer = [i \in 1..Len(fts) |-> Frame(i, fts[i])]
    /\ diff_samples = <<>>
    /\ delta_orb_to_evs \in {None, Some(0)}
    /\ initial_delta_monitoring = delta_orb_to_evs
    /\ record_enabled \in BOOLEAN /\ record_idx = 0
    /\ submitted = <<>> /\ task_pc = <<>> /\ files = {} /\ executor_shutdown = FALSE
    /\ log = NoLog /\ matches = <<>> /\ last_op = "init"

NextScan ==
    \/ Sync
    \/ SyncMonitor({FALSE})
    \/ SyncPullEvs
    \/ SyncPullOrb

SpecScan == InitScan /\ [][NextScan]_vars

\* SpecMonitor: as SpecScan, with the 5 s monitor timer elapsing at any tick
NextMonitor ==
    \/ Sync
    \/ SyncMonitor(BOOLEAN)
    \/ SyncPullEvs
    \/ SyncPullOrb

SpecMonitor == InitScan /\ [][NextMonitor]_vars

\* SpecBatches: the Event Slicer alone, fed SlBatches batches of BatchWindow
\* microseconds each: in a batch every microsecond carries an event or none, and
\* the trigger input delivers nothing, one rising edge, two rising edges, a falling
\* edge, or a rising edge followed by a falling edge
Rising(t) == [t |-> t, p |-> 1]
Falling(t) == [t |-> t, p |-> 0]

TrigPatterns(c) ==
    {<<>>, <<Rising(c + 2)>>, <<Rising(c + BatchWindow)>>,
     <<Rising(c + 2), Rising(c + BatchWindow)>>,
     <<Falling(c + 1)>>, <<Rising(c + 2), Falling(c + BatchWindow)>>}

\* the elements of a set of timestamps in ascending order
RECURSIVE AscendingSeq(_)
AscendingSeq(S) ==
    IF S = {} THEN <<>>
    ELSE LET m == CHOOSE x \in S : \A y \in S : x <= y
         IN  <<m>> \o AscendingSeq(S \ {m})

Batches(c) ==
    {[evs |-> AscendingSeq(E), trigs |-> g, upto |-> c + BatchWindow] :
        E \in SUBSET ((c + 1)..(c + BatchWindow)), g \in TrigPatterns(c)}

InitBatches == InitWith(0, 0, FALSE)

NextBatches ==
    \/ \E batch \in Batches(evs_clock) :
          /\ evs_clock < SlBatches * BatchWindow
          /\ SlicerFetch(batch, FALSE)
    \/ SlicerTrig
    \/ SlicerEnd

SpecBatches == InitBatches /\ [][NextBatches]_vars

\* SpecGap: the Seeded phase with one slice at the front of the event buffer and
\* the frames of 4000 and 20000 buffered; the camera goes on delivering a frame
\* every period (each is pulled before the next one comes: the tick is 1 ms), no
\* further trigger comes, and the producer, the synchronizer loop and the display
\* timer keep running; a run is followed until the slice has left the buffer or
\* GapFrames frames have been captured. GapSliceTs: a stale slice, a slice 500
\* from the first frame, a slice in the gap between the two frames, and one at
\* exactly 5000 before the second frame
GapSliceTs == {-6000, 4500, 10000, 15000}
GapFrameTs == <<4000, 20000>>

InitGap ==
    /\ stop_event = FALSE
    /\ slice_queue = <<>> /\ o_queue_sync = <<>> /\ o_queue = <<>> /\ p_queue = <<>>
    /\ slicer_pc = "iter" /\ active = FALSE /\ last_trigger_ts = None
    /\ event_buffer = <<>> /\ cur_evs = <<>> /\ cur_trigs = <<>>
    /\ evs_clock = 0 /\ n_trig = 0
    /\ orb_pc = "loop" /\ cur_frame = None
    /\ orb_clock = GapFrameTs[Len(GapFrameTs)] /\ n_frames = Len(GapFrameTs)
    /\ sync_pc = "loop"
    /\ \E ts \in GapSliceTs :
          evs_buffer = <<Slice(<<ts + 1>>, ts, ts + FramePeriod)>>
    /\ orb_buffer = [i \in 1..Len(GapFrameTs) |-> Frame(i, GapFrameTs[i])]
    /\ diff_samples = <<>>
    /\ delta_orb_to_evs = Some(0) /\ initial_delta_monitoring = Some(0)
    /\ record_enabled = FALSE /\ record_idx = 0
    /\ submitted = <<>> /\ task_pc = <<>> /\ files = {} /\ executor_shutdown = FALSE
    /\ log = NoLog /\ matches = <<>> /\ last_op = "init"

GapProducer ==
    \/ /\ n_frames < GapFrames
       /\ o_queue_sync = <<>>
       /\ evs_buffer # <<>>
       /\ OrbGetFrames(FramePeriod)
    \/ OrbDrain
    \/ OrbCheckSync
    \/ OrbPutDisplay
    \/ OrbPutSync

GapLoop ==
    \/ SyncPullEvs
    \/ SyncPullOrb
    \/ Sync
    \/ SyncMonitor({FALSE})

NextGap ==
    \/ GapProducer
    \/ GapLoop
    \/ PollOrbQueue

SpecGap ==
    /\ InitGap /\ [][NextGap]_vars
    /\ WF_vars(GapProducer) /\ WF_vars(GapLoop) /\ WF_vars(PollOrbQueue)

\* ============================================================ claims
\* a step of sync_process that appends a pulled slice / a pulled frame
AppendsEvs == sync_pc = "loop" /\ sync_pc' = "getO" /\ slice_queue # <<>>
AppendsOrb == sync_pc = "getO" /\ sync_pc' # "getO" /\ o_queue_sync # <<>>

\* C1: in every reachable state both buffers hold at most 100 items, and an append
\* to a buffer that holds 100 items removes its oldest item and puts the new item
\* at the back
C1_BoundedBuffers ==
    /\ [](Len(evs_buffer) <= BufferMaxLen /\ Len(orb_buffer) <= BufferMaxLen)
    /\ [][(AppendsEvs /\ Len(evs_buffer) = BufferMaxLen)
             => evs_buffer' = Append(Tail(evs_buffer), Head(slice_queue))]_vars
    /\ [][(AppendsOrb /\ Len(orb_buffer) = BufferMaxLen)
             => orb_buffer' = Append(Tail(orb_buffer), Head(o_queue_sync))]_vars

\* C1 witness: the frame buffer is full after an append that evicted the first frame
C1_Witness ==
    /\ last_op = "pull_orb"
    /\ Len(orb_buffer) = BufferMaxLen
    /\ Head(orb_buffer).rgb > 1

\* the same on the event side
C1_WitnessEvs ==
    /\ last_op = "pull_evs"
    /\ Len(evs_buffer) = BufferMaxLen
    /\ Head(evs_buffer).start_ts > FirstTrigger

StrictlyIncreasing(seq) ==
    \A i \in 1..Len(seq) : \A j \in 1..Len(seq) : i < j => seq[i] < seq[j]

\* C2: the producers deliver strictly increasing timestamps (every interval of the
\* explored runs is positive); the start_ts of the slices committed as matches are
\* strictly increasing, and so are the rgb_ts of the frames committed as matches
C2_MonotonicConsumption ==
    /\ StrictlyIncreasing([i \in 1..Len(matches) |-> matches[i].start_ts])
    /\ StrictlyIncreasing([i \in 1..Len(matches) |-> matches[i].rgb_ts])

\* C2 witness: two matches were committed, the second one skipping a frame
C2_Witness ==
    /\ Len(matches) >= 2
    /\ matches[2].frame > matches[1].frame + 1

\* the state in which sync() is entered, and what it sees there
InSync == sync_pc = "sync"
SyncCall == sync_pc = "sync" /\ sync_pc' = "mon"
FrontTs == Head(evs_buffer).start_ts
OffsetInForce ==
    IF delta_orb_to_evs = None THEN FrontTs - Head(orb_buffer).rgb_ts
    ELSE Val(delta_orb_to_evs)
FrameDiffs == {Abs(orb_buffer[i].rgb_ts + OffsetInForce - FrontTs) :
                  i \in 1..Len(orb_buffer)}
MinFrameDiff == CHOOSE d \in FrameDiffs : \A e \in FrameDiffs : d <= e
CommitsMatch == Len(matches') = Len(matches) + 1
LastMatch == matches[Len(matches)]

\* C3: the offset is set only by a sync() call, which is entered with both buffers
\* non-empty; the call that finds it unset leaves it at (front start_ts - front
\* rgb_ts) and writes initial_delta_monitoring to the same value; once set it is
\* never unset, it changes only in a call that commits a match, by the drift
\* correction of that match, and initial_delta_monitoring never changes again
C3_SeedOnce ==
    /\ [](InSync => (Len(evs_buffer) > 0 /\ Len(orb_buffer) > 0))
    /\ []((delta_orb_to_evs = None) <=> (initial_delta_monitoring = None))
    /\ [][(delta_orb_to_evs = None /\ ~SyncCall) => delta_orb_to_evs' = None]_vars
    /\ [][(delta_orb_to_evs = None /\ SyncCall)
             => /\ delta_orb_to_evs' = Some(FrontTs - Head(orb_buffer).rgb_ts)
                /\ initial_delta_monitoring' = delta_orb_to_evs']_vars
    /\ [][delta_orb_to_evs # None
             => /\ delta_orb_to_evs' # None
                /\ initial_delta_monitoring' = initial_delta_monitoring
                /\ delta_orb_to_evs' # delta_orb_to_evs
                      => /\ SyncCall /\ CommitsMatch
                         /\ LET m == matches'[Len(matches')]
                                e == m.start_ts - (m.rgb_ts + Val(delta_orb_to_evs))
                            IN  Val(delta_orb_to_evs') - Val(delta_orb_to_evs) =
                                   IF e >= 0 THEN e \div 100 ELSE -((-e) \div 100)]_vars

\* C3 witness: the offset was seeded and a later match has moved it
C3_Witness ==
    /\ delta_orb_to_evs # None
    /\ delta_orb_to_evs # initial_delta_monitoring
    /\ Val(initial_delta_monitoring) = matches[1].start_ts - matches[1].rgb_ts

\* C4: a match attempt commits a match exactly when the least |rgb_ts + offset -
\* ts_E| over the buffered frames is below 5000, and records that least difference:
\* 4999 matches, 5000 does not
C4_ThresholdStrict ==
    /\ [][SyncCall
             => /\ CommitsMatch <=> (MinFrameDiff < sync_threshold_us)
                /\ CommitsMatch => matches'[Len(matches')].diff = MinFrameDiff]_vars
    /\ [][~SyncCall => matches' = matches]_vars

\* C4 witness: a match committed at a difference of exactly 4999
C4_Witness ==
    /\ last_op = "match"
    /\ LastMatch.diff = sync_threshold_us - 1

\* a match attempt at a difference of exactly 5000 stands behind, unmatched
C4_WitnessAtThreshold ==
    /\ InSync
    /\ MinFrameDiff = sync_threshold_us

\* C5: in a match attempt with no frame within the threshold, a slice older than
\* the oldest mapped frame by more than 5000 is the only item removed, a slice
\* newer than the newest mapped frame by more than 5000 makes the oldest frame the
\* only item removed, and neither changes the offset or records a match
C5_EvictionDirection ==
    [][(SyncCall /\ MinFrameDiff >= sync_threshold_us)
          => /\ FrontTs < Head(orb_buffer).rgb_ts + OffsetInForce - sync_threshold_us
                   => /\ evs_buffer' = Tail(evs_buffer)
                      /\ orb_buffer' = orb_buffer
                      /\ UNCHANGED <<delta_orb_to_evs, matches, submitted, record_idx>>
             /\ FrontTs > orb_buffer[Len(orb_buffer)].rgb_ts + OffsetInForce
                             + sync_threshold_us
                   => /\ orb_buffer' = Tail(orb_buffer)
                      /\ evs_buffer' = evs_buffer
                      /\ UNCHANGED <<delta_orb_to_evs, matches, submitted, record_idx>>
      ]_vars

\* C5 witness: the oldest frame was evicted under a slice that is still buffered
C5_Witness ==
    /\ last_op = "drop_orb"
    /\ log.orb_dropped = 1
    /\ Len(evs_buffer) > 0

\* the other direction: a slice was evicted under frames that are still buffered
C5_WitnessEvs ==
    /\ last_op = "drop_evs"
    /\ Len(orb_buffer) > 0

\* the i-th pair of the nominal scenario: slice i starts FirstTrigger after frame i
ExpectedMatch(i) ==
    [start_ts |-> FirstTrigger + (i - 1) * FramePeriod,
     rgb_ts |-> (i - 1) * FramePeriod, diff |-> 0, frame |-> i]

\* every slice and frame of the scenario has been delivered and pulled, and the
\* tick that pulled the last one is over
ScenarioOver ==
    /\ n_trig = ScnPairs + 1 /\ slicer_pc = "iter" /\ slice_queue = <<>>
    /\ n_frames = ScnPairs /\ orb_pc = "loop" /\ o_queue_sync = <<>>
    /\ sync_pc = "loop"

\* C6: with persistence enabled and the slices 1000, 34000, 67000 and the frames
\* 0, 33000, 66000 delivered in order, in every interleaving the offset is seeded
\* to 1000 and stays there, the matches committed are (1000,0), (34000,33000),
\* (67000,66000) in that order, each with error 0 and submitted under the record
\* indices 0, 1, 2, and once everything is delivered and pulled there are exactly
\* three of them
C6_EndToEnd ==
    /\ \A i \in 1..Len(matches) : matches[i] = ExpectedMatch(i)
    /\ Len(submitted) = Len(matches)
    /\ record_idx = Len(matches)
    /\ \A i \in 1..Len(submitted) :
          /\ submitted[i].idx = i - 1
          /\ submitted[i].start_ts = matches[i].start_ts
          /\ submitted[i].rgb = matches[i].frame
    /\ delta_orb_to_evs # None
          => delta_orb_to_evs = Some(FirstTrigger) /\ Len(matches) >= 1
    /\ ScenarioOver => Len(matches) = ScnPairs

\* C6 witness: the scenario is over with its ScnPairs matches
C6_Witness ==
    /\ ScenarioOver
    /\ Len(matches) = ScnPairs
    /\ LastMatch.start_ts = FirstTrigger + (ScnPairs - 1) * FramePeriod
    /\ record_idx = ScnPairs

\* what the artifact of a kind holds when it holds the data of bundle b
ArtifactOf(b, kind) ==
    IF kind = "h5"
    THEN [events |-> b.event_volume, start_ts |-> b.start_ts, end_ts |-> b.end_ts]
    ELSE IF kind = "rgb" THEN [image |-> b.rgb] ELSE [image |-> b.depth]

Kinds == {"h5", "rgb", "depth"}

\* C7: the pairs reach record() in match order and get the indices 0..K-1; in every
\* interleaving of the workers each file written under index N holds the data of
\* the N-th submitted pair, written by that pair's task alone, no two tasks share a
\* file name, and a task that is done has written its three files
C7_OrderPreserved ==
    /\ Len(submitted) = Len(matches)
    /\ \A k \in 1..Len(submitted) :
          /\ submitted[k].idx = k - 1
          /\ submitted[k].start_ts = matches[k].start_ts
          /\ submitted[k].rgb = matches[k].frame
          /\ submitted[k].depth = matches[k].frame
    /\ \A j \in 1..Len(submitted) : \A k \in 1..Len(submitted) :
          j # k => \A a \in Kinds : \A b \in Kinds :
                      FileName(submitted[j].idx, a) # FileName(submitted[k].idx, b)
    /\ \A f \in files :
          \E k \in 1..Len(submitted) :
             /\ f.by = k
             /\ f.name.stem = IdxStr(k - 1)
             /\ f.data = ArtifactOf(submitted[k], f.name.kind)
    /\ \A k \in 1..Len(task_pc) :
          task_pc[k] = "done"
             => \A a \in Kinds :
                   \E f \in files : f.name = [stem |-> IdxStr(k - 1), kind |-> a]

\* C7 witness: RecPairs pairs submitted, the last one written in full while the
\* first one is still being written
C7_Witness ==
    /\ Len(submitted) = RecPairs
    /\ task_pc[RecPairs] = "done"
    /\ task_pc[1] = "depth"
    /\ Cardinality(files) = 3 * (RecPairs - 1) + 2

\* the start of the i-th slice of a run at the nominal period
SliceStart(i) == FirstTrigger + (i - 1) * FramePeriod
Min(a, b) == IF a <= b THEN a ELSE b
Max(a, b) == IF a >= b THEN a ELSE b

\* the Event Slicer completes a slice in this step
CompletesSlice ==
    /\ slicer_pc = "trig" /\ slicer_pc' # "trig" /\ active
    /\ Len(event_buffer \o EvsUpTo(cur_evs, Head(cur_trigs).t)) > 0

\* C8: a slice completed while slice_queue holds 5 items is discarded with one
\* warning, the queue keeps its 5 items in order, and the slicer goes on (its step
\* is always enabled); with nothing pulled, the queue holds the first 5 slices in
\* order and exactly the later ones were dropped, the sixth first
C8_SliceOverflow ==
    /\ [](Len(slice_queue) <= SliceQueueMax)
    /\ [](slicer_pc = "trig" => ENABLED SlicerTrig)
    /\ [][(CompletesSlice /\ Len(slice_queue) = SliceQueueMax)
             => /\ slice_queue' = slice_queue
                /\ log'.slice_full = Append(log.slice_full, Val(last_trigger_ts))]_vars
    /\ [][(CompletesSlice /\ Len(slice_queue) < SliceQueueMax)
             => /\ Len(slice_queue') = Len(slice_queue) + 1
                /\ log' = log]_vars
    /\ []((evs_buffer = <<>> /\ slicer_pc = "iter" /\ n_trig >= 1)
             => /\ Len(slice_queue) = Min(n_trig - 1, SliceQueueMax)
                /\ \A i \in 1..Len(slice_queue) :
                      slice_queue[i].start_ts = SliceStart(i)
                /\ Len(log.slice_full) = Max(0, n_trig - 1 - SliceQueueMax)
                /\ \A j \in 1..Len(log.slice_full) :
                      log.slice_full[j] = SliceStart(SliceQueueMax + j))

\* C8 witness: six slices completed with nothing pulled, the sixth dropped
C8_Witness ==
    /\ evs_buffer = <<>> /\ slicer_pc = "iter"
    /\ n_trig = SliceQueueMax + 2
    /\ Len(slice_queue) = SliceQueueMax
    /\ log.slice_full = <<SliceStart(SliceQueueMax + 1)>>

Range(seq) == {seq[i] : i \in 1..Len(seq)}

\* C9: a frame that finds o_queue_sync full is discarded with a warning: it never
\* enters the queue, and the producer is never left waiting on the full queue
C9_DropIncomingFrame ==
    /\ \A i \in 1..Len(o_queue_sync) : o_queue_sync[i].rgb \notin Range(log.sync_full)
    /\ ~(orb_pc = "put_sync" /\ QFull(o_queue_sync, SyncQueueMax))

\* C10: a frame that finds o_queue full evicts the pending item of o_queue, so the
\* producer reaches its o_queue.put with room in the queue and never waits there
C10_EvictOldestDisplay ==
    ~(orb_pc = "put_o" /\ QFull(o_queue, DisplayQueueMax))

\* C11: once stop_event is set, the Event Slicer, the Frame Producer and the
\* Synchronizer Core each eventually leave their loop, whatever the queues hold and
\* whatever the consumers do
C11_StopObserved ==
    stop_event ~> (Left(slicer_pc) /\ Left(orb_pc) /\ Left(sync_pc))

\* the files of index idx written so far
FilesOf(idx) == {f \in files : f.name.stem = IdxStr(idx)}

C12_WitnessWaiting ==
    /\ sync_pc = "shutdown"
    /\ \E j \in 1..Len(submitted) : task_pc[j] = "queued"
    /\ \E k \in 1..Len(submitted) : task_pc[k] = "depth"

\* the k-th task fails in this step
TaskFails(k) == task_pc[k] # "failed" /\ task_pc'[k] = "failed"

C14_MatchesCounted == record_idx = Len(matches)

\* a unit's worker ends on an exception in this step
SlicerFaults == slicer_pc # "faulted" /\ slicer_pc' = "faulted"
OrbFaults == orb_pc # "faulted" /\ orb_pc' = "faulted"
SyncFaults == sync_pc # "faulted" /\ sync_pc' = "faulted"

\* C15: a fault in the Event Slicer worker or in the Frame Producer worker ends
\* that worker's loop and leaves stop_event set
C15_ProducerFaultStops ==
    [][(SlicerFaults \/ OrbFaults) => stop_event']_vars

\* C16: a fault in the Synchronizer Core worker, at construction or inside
\* sync_process, leaves stop_event as it was, so the two producers go on
C16_SyncFaultNonFatal ==
    [][SyncFaults => stop_event' = stop_event]_vars

\* the distance of the i-th buffered frame from the front slice, and the lowest
\* index among the frames at the least distance
Dist(i) == Abs(orb_buffer[i].rgb_ts + OffsetInForce - FrontTs)
LowestNearest ==
    CHOOSE i \in 1..Len(orb_buffer) :
       /\ \A j \in 1..Len(orb_buffer) : Dist(i) <= Dist(j)
       /\ \A j \in 1..(i - 1) : Dist(j) > Dist(i)

\* C17: the frame a match attempt selects is the lowest-indexed of the buffered
\* frames that are nearest to the front slice under the offset in force, and a
\* committed match pairs the slice with that frame at that distance
C17_LowestNearest ==
    /\ [](InSync => BestMatch(orb_buffer, OffsetInForce, FrontTs) =
                       [idx |-> LowestNearest, diff |-> Dist(LowestNearest)])
    /\ [][(SyncCall /\ CommitsMatch)
             => /\ matches'[Len(matches')].frame = orb_buffer[LowestNearest].rgb
                /\ matches'[Len(matches')].diff = Dist(LowestNearest)]_vars

\* C17 witness: the slice at 1000 stood at distance 1000 from the frames at 0 and
\* at 2000; the match took the frame at 0 and the frame at 2000 is still buffered
C17_Witness ==
    /\ last_op = "match" /\ Len(matches) = 1
    /\ LastMatch = [start_ts |-> 1000, rgb_ts |-> 0, diff |-> 1000, frame |-> 1]
    /\ initial_delta_monitoring = Some(0)
    /\ Len(orb_buffer) >= 1 /\ Head(orb_buffer).rgb_ts = 2000

\* C18: a committed match removes the front slice and nothing else from the event
\* buffer, and from the frame buffer the selected frame with every frame before
\* it; what remains of both keeps its order, and the frame matched is the one that
\* stood at the selected index
C18_CommitPops ==
    [][(SyncCall /\ CommitsMatch)
          => /\ evs_buffer' = Tail(evs_buffer)
             /\ Len(orb_buffer') = Len(orb_buffer) - LowestNearest
             /\ \A j \in 1..Len(orb_buffer') :
                   orb_buffer'[j] = orb_buffer[LowestNearest + j]
             /\ matches'[Len(matches')].frame = orb_buffer[LowestNearest].rgb
             /\ matches'[Len(matches')].rgb_ts = orb_buffer[LowestNearest].rgb_ts
             /\ matches'[Len(matches')].start_ts = Head(evs_buffer).start_ts]_vars

\* C18 witness: the second of three frames was matched; the first went with it,
\* the third is still buffered and so is the second slice
C18_Witness ==
    /\ last_op = "match" /\ Len(matches) = 1
    /\ LastMatch.frame = 2
    /\ Len(orb_buffer) = 1 /\ Head(orb_buffer).rgb = 3
    /\ Len(evs_buffer) = 1 /\ Head(evs_buffer).start_ts > LastMatch.start_ts

\* the error of the match this step commits
MatchError == FrontTs - (orb_buffer[LowestNearest].rgb_ts + OffsetInForce)

\* 0.01 * e rounded to the nearest integer (a half goes to the even neighbour, as
\* Python's round does), and truncated toward zero
RoundNearest(e) ==
    CHOOSE n \in -51..51 :
       /\ 2 * Abs(100 * n - e) <= 100
       /\ (2 * Abs(100 * n - e) = 100) => n % 2 = 0
TruncZero(e) ==
    CHOOSE n \in -51..51 :
       /\ 100 * Abs(n) <= Abs(e) /\ Abs(e) < 100 * (Abs(n) + 1)
       /\ n * e >= 0

\* C19 as claimed: a committed match with error e, -5000 < e < 5000, moves the
\* offset by 0.01 * e rounded to the nearest integer
C19_DriftRounded ==
    [][(SyncCall /\ CommitsMatch)
          => delta_orb_to_evs' = Some(OffsetInForce + RoundNearest(MatchError))]_vars

\* C19 as amended: a committed match with error e, -5000 < e < 5000, moves the
\* offset by 0.01 * e truncated toward zero
C19_DriftTruncated ==
    [][(SyncCall /\ CommitsMatch)
          => /\ Abs(MatchError) < sync_threshold_us
             /\ delta_orb_to_evs' = Some(OffsetInForce + TruncZero(MatchError))]_vars

\* C19 witness: a match with error 150 moved the offset from 0 to 1
C19_Witness ==
    /\ last_op = "match" /\ Len(matches) = 1
    /\ initial_delta_monitoring = Some(0)
    /\ LastMatch.start_ts - LastMatch.rgb_ts = 150
    /\ delta_orb_to_evs = Some(1)

\* a match with error -150 moved the offset from 0 to -1
C19_WitnessNegative ==
    /\ last_op = "match" /\ Len(matches) = 1
    /\ initial_delta_monitoring = Some(0)
    /\ LastMatch.start_ts - LastMatch.rgb_ts = -150
    /\ delta_orb_to_evs = Some(-1)

\* C20: a match attempt in which no frame is within the threshold and the front
\* slice is neither more than 5000 before the oldest mapped frame nor more than
\* 5000 after the newest changes nothing of the synchronizer
C20_WaitChangesNothing ==
    [][(/\ SyncCall
        /\ MinFrameDiff >= sync_threshold_us
        /\ Head(orb_buffer).rgb_ts + OffsetInForce - sync_threshold_us <= FrontTs
        /\ FrontTs <= orb_buffer[Len(orb_buffer)].rgb_ts + OffsetInForce
                         + sync_threshold_us)
          => UNCHANGED <<evs_buffer, orb_buffer, delta_orb_to_evs, diff_samples,
                         record_idx, initial_delta_monitoring, submitted, matches>>
      ]_vars

\* C20 witness: the slice at 10000 stood in the gap between the frames at 4000
\* and at 20000, and the attempt has left both buffers as they were
C20_Witness ==
    /\ last_op = "wait"
    /\ Head(evs_buffer).start_ts = 10000
    /\ delta_orb_to_evs = Some(0)
    /\ Len(orb_buffer) = 2
    /\ orb_buffer[1].rgb_ts = 4000 /\ orb_buffer[2].rgb_ts = 20000

\* the slice stood exactly 5000 before the only frame
C20_WitnessAtBound ==
    /\ last_op = "wait"
    /\ Head(evs_buffer).start_ts = 15000
    /\ delta_orb_to_evs = Some(0)
    /\ Len(orb_buffer) = 1 /\ Head(orb_buffer).rgb_ts = 20000

\* C21: a frame pulled while the frame buffer holds 100 frames pushes the oldest
\* frame out and goes to the back, and the pull prints a warning for the eviction
C21_FrameEvictionWarned ==
    [][(AppendsOrb /\ Len(orb_buffer) = BufferMaxLen)
          => /\ orb_buffer' = Append(Tail(orb_buffer), Head(o_queue_sync))
             /\ log' # log]_vars

\* buf2 is buf with a run of its oldest elements removed, then at most one element
\* added at the back
FrontBackOnly(buf, buf2) ==
    \E k \in 0..Len(buf) :
       \/ buf2 = SubSeq(buf, k + 1, Len(buf))
       \/ /\ Len(buf2) = Len(buf) - k + 1
          /\ SubSeq(buf2, 1, Len(buf2) - 1) = SubSeq(buf, k + 1, Len(buf))

MonitorCall == sync_pc = "mon" /\ sync_pc' = "loop" /\ last_op' = "monitor"

\* C23: a call of monitor_buffers leaves both buffers, the offset, the initial
\* offset, the record index, the matches and stop_event as they were and empties
\* the diff-sample window; called on an empty window it prints average 0 and
\* maximum 0, on a window with samples their maximum; no other step prints a
\* monitor line
C23_MonitorReadOnly ==
    /\ [][MonitorCall
             => /\ UNCHANGED <<evs_buffer, orb_buffer, delta_orb_to_evs,
                               initial_delta_monitoring, record_idx, submitted,
                               matches, stop_event, slice_queue, o_queue_sync>>
                /\ diff_samples' = <<>>
                /\ diff_samples = <<>>
                      => log'.monitor = Some([avg |-> 0, max |-> 0])
                /\ diff_samples # <<>>
                      => /\ Val(log'.monitor).max = SeqMax(diff_samples)
                         /\ \A i \in 1..Len(diff_samples) :
                               diff_samples[i] <= Val(log'.monitor).max]_vars
    /\ [][~MonitorCall => log'.monitor = log.monitor]_vars

\* C23 witness: the monitor has reported a window of one sample of 1000 and then,
\* called again on the empty window, 0 and 0, with the offset still moved by
\* that match
C23_Witness ==
    /\ last_op = "monitor"
    /\ diff_samples = <<>>
    /\ Len(matches) = 1 /\ LastMatch.diff = 1000
    /\ log.monitor = Some([avg |-> 0, max |-> 0])
    /\ delta_orb_to_evs = Some(10)

\* the monitor has reported the window of one sample of 1000
C23_WitnessSamples ==
    /\ last_op = "monitor"
    /\ diff_samples = <<>>
    /\ log.monitor = Some([avg |-> 1000, max |-> 1000])

\* C24: every event record of every slice on slice_queue has a timestamp t with
\* start_ts < t <= end_ts, however the events and the rising edges are batched
C24_SliceBounded ==
    \A i \in 1..Len(slice_queue) :
       \A j \in 1..Len(slice_queue[i].event_volume) :
          /\ slice_queue[i].start_ts < slice_queue[i].event_volume[j]
          /\ slice_queue[i].event_volume[j] <= slice_queue[i].end_ts

\* the frames that have left the camera and are not consumed yet, oldest first:
\* the frame deque, the synchronizer's queue and the frame the producer holds
PendingFrames ==
    orb_buffer \o o_queue_sync \o (IF cur_frame = None THEN <<>> ELSE cur_frame)
DiscardsSlice == SyncCall /\ ~CommitsMatch /\ evs_buffer' = Tail(evs_buffer)
OutsideThreshold(ts) == Abs(ts + OffsetInForce - FrontTs) >= sync_threshold_us

\* C25: the frames leave the camera in ascending rgb_ts order, and when sync()
\* discards the front slice as stale, no frame that is buffered, on its way to the
\* synchronizer or still to be captured (rgb_ts at or after the last capture) lies
\* within the threshold of that slice under the offset in force
C25_StaleSliceHasNoFrame ==
    /\ [](\A i \in 1..Len(PendingFrames) :
             /\ i > 1 => PendingFrames[i - 1].rgb_ts <= PendingFrames[i].rgb_ts
             /\ PendingFrames[i].rgb_ts <= orb_clock)
    /\ [][DiscardsSlice
            => /\ FrontTs < Head(orb_buffer).rgb_ts + OffsetInForce - sync_threshold_us
               /\ \A i \in 1..Len(PendingFrames) :
                     OutsideThreshold(PendingFrames[i].rgb_ts)
               /\ \A k \in 0..MaxFrames :
                     OutsideThreshold(orb_clock + k * FramePeriod)]_vars

\* a slice was discarded as stale while a later frame was on its way
C25_Witness ==
    /\ last_op = "drop_evs"
    /\ Len(orb_buffer) > 0
    /\ Len(PendingFrames) > Len(orb_buffer)

\* C26: the sync() call that finds the offset unset commits a match in that call:
\* the front slice with the front frame, with error 0; both fronts are removed,
\* and the offset is left at the seeded value (front start_ts - front rgb_ts)
C26_SeedingMatchesFront ==
    [][(SyncCall /\ delta_orb_to_evs = None)
          => /\ CommitsMatch
             /\ matches'[Len(matches')] =
                   [start_ts |-> FrontTs, rgb_ts |-> Head(orb_buffer).rgb_ts,
                    diff |-> 0, frame |-> Head(orb_buffer).rgb]
             /\ LowestNearest = 1 /\ MatchError = 0
             /\ evs_buffer' = Tail(evs_buffer)
             /\ orb_buffer' = Tail(orb_buffer)
             /\ diff_samples' = Append(diff_samples, 0)
             /\ delta_orb_to_evs' = Some(FrontTs - Head(orb_buffer).rgb_ts)
             /\ initial_delta_monitoring' = delta_orb_to_evs']_vars

\* the seeding call paired a slice and a frame 6000 apart, with later frames
\* buffered, and left the offset at the seed
C26_Witness ==
    /\ last_op = "match" /\ Len(matches) = 1
    /\ LastMatch = [start_ts |-> -6000, rgb_ts |-> 0, diff |-> 0, frame |-> 1]
    /\ delta_orb_to_evs = Some(-6000)
    /\ initial_delta_monitoring = Some(-6000)
    /\ Len(orb_buffer) >= 1

\* the change of the offset in this step, from the offset the step works with
OffsetChange == Val(delta_orb_to_evs') - OffsetInForce

\* C27: a committed match moves the offset by at most 49, toward the error it
\* observed, and not at all when the error is below 100 in absolute value; a set
\* offset changes only in a sync() call that commits a match, and an unset one is
\* set only by a sync() call
C27_OffsetStepBounded ==
    /\ [][(SyncCall /\ CommitsMatch)
             => /\ delta_orb_to_evs' # None
                /\ Abs(OffsetChange) <= 49
                /\ OffsetChange # 0 => OffsetChange * MatchError > 0
                /\ Abs(MatchError) < 100 => OffsetChange = 0]_vars
    /\ [][(delta_orb_to_evs # None /\ delta_orb_to_evs' # delta_orb_to_evs)
             => SyncCall /\ CommitsMatch]_vars
    /\ [][(delta_orb_to_evs = None /\ delta_orb_to_evs' # None) => SyncCall]_vars

\* a match with error 4999 moved the offset from 0 to 49
C27_Witness ==
    /\ last_op = "match" /\ Len(matches) = 1
    /\ initial_delta_monitoring = Some(0)
    /\ LastMatch.start_ts - LastMatch.rgb_ts = 4999
    /\ delta_orb_to_evs = Some(49)

\* a match with error -60 left the offset at 0
C27_WitnessSmall ==
    /\ last_op = "match" /\ Len(matches) = 1
    /\ initial_delta_monitoring = Some(0)
    /\ LastMatch.start_ts - LastMatch.rgb_ts = -60
    /\ delta_orb_to_evs = Some(0)

\* the ordinal of the newest frame the synchronizer has pulled
NewestPulled == orb_buffer[Len(orb_buffer)].rgb

\* the pull after which neither frame of GapFrameTs is left in the full deque
GapTurnover == BufferMaxLen + Len(GapFrameTs)

\* C28: in the Seeded phase, with frames of increasing timestamps arriving and the
\* loop ticking, the slice at the front of the event buffer does not stay: it is
\* removed at the latest by the sync() call that follows the pull which pushed the
\* last frame older than the slice, or within 5000 of it, out of the full deque;
\* also when it lies between two buffered frames farther than 5000 from both
C28_HeadSliceLeaves ==
    /\ [](evs_buffer # <<>> /\ orb_buffer # <<>> => NewestPulled <= GapTurnover)
    /\ [](sync_pc = "mon" /\ orb_buffer # <<>> /\ NewestPulled >= GapTurnover
             => evs_buffer = <<>>)
    /\ [][(SyncCall /\ Head(orb_buffer).rgb_ts + OffsetInForce
                          > FrontTs + sync_threshold_us)
             => evs_buffer' = Tail(evs_buffer)]_vars

\* C28 as a leads-to under the fairness of SpecGap
C28_HeadSliceEventuallyLeaves == (evs_buffer # <<>>) ~> (evs_buffer = <<>>)

\* the slice in the gap between the frames of 4000 and 20000 was discarded as
\* stale once the full frame deque had pushed the frame of 4000 out
C28_Witness ==
    /\ last_op = "drop_evs"
    /\ evs_buffer = <<>>
    /\ Len(orb_buffer) = BufferMaxLen
    /\ Head(orb_buffer).rgb_ts = GapFrameTs[2]
    /\ matches = <<>>

\* a step of toggle_sensors that starts a new set of workers
StartsWorkers == Left(slicer_pc) /\ slicer_pc' = "iter"

\* C29: a new set of workers is started only when no worker of the previous set
\* is alive, so that at most one worker of each unit runs at a time
C29_OneWorkerSet ==
    [][StartsWorkers => (Left(orb_pc) /\ Left(sync_pc))]_vars

====
